---- MODULE Spec2Model ----
(***************************************************************************)
(* Model of flask-app/app.py: the with_metrics request wrapper, the five   *)
(* Prometheus metric families it feeds, and the five CRUD handlers over    *)
(* the in-memory list `items`, run by concurrent worker threads.           *)
(*                                                                         *)
(* Time is counted in whole seconds (the variable now); histogram bucket   *)
(* bounds are kept in milliseconds.  Python objects are records            *)
(* [t, code, elems]: t is the type name, code the integer payload (an      *)
(* int's value, a Response's status_code, an exception's code; 0 stands    *)
(* for a missing/None code), elems the elements of a tuple.                *)
(***************************************************************************)
EXTENDS Integers, Sequences, FiniteSets, TLC

\* ------------------------------------------------------------------ bounds
MaxRequests == 3
MaxTimedRequests == 2
MaxWrappedRequests == 3
MaxTime == 6
MaxDelayRequests == 2
MaxStoreRequests == 4

\* the worker threads of the server, and the ids clients ask for
Workers == {1, 2}
ItemIds == {1}

\* --------------------------------------------------------- program constants
SLOW_THRESHOLD == 5

\* buckets=(0.005, 0.01, 0.05, 0.1, 0.5, 1, 2, 5), in milliseconds
HTTP_DURATION_buckets == <<5, 10, 50, 100, 500, 1000, 2000, 5000>>

\* prometheus_client's default buckets (LAST_DURATION passes none), in ms
LAST_DURATION_buckets ==
    <<5, 10, 25, 50, 75, 100, 250, 500, 750, 1000, 2500, 5000, 7500, 10000>>

\* ------------------------------------------------------------ Python values
PyObj(t, c, es) == [t |-> t, code |-> c, elems |-> es]
PyNone == PyObj("NoneType", 0, <<>>)
PyInt(n) == PyObj("int", n, <<>>)
PyStr == PyObj("str", 0, <<>>)
PyDict == PyObj("dict", 0, <<>>)
PyTuple(es) == PyObj("tuple", 0, es)
\* jsonify(...) builds a flask Response with status 200
jsonify == PyObj("Response", 200, <<>>)
\* abort(code) raises the werkzeug HTTPException subclass for that code
abort(c) == PyObj("HTTPException", c, <<>>)
RecursionError == PyObj("RecursionError", 0, <<>>)

\* a function's exit: kind is "none" (still running), "return" or "raise"
NoOutcome == [kind |-> "none", val |-> PyNone]
Return(v) == [kind |-> "return", val |-> v]
Raise(e) == [kind |-> "raise", val |-> e]

\* ------------------------------------------------------- request inputs
\* ?delay= values: absent, unparseable, 4.0 and 6.0 seconds
DelayInputs == {"", "abc", "4.0", "6.0"}
\* ?fail= values: absent, present
FailInputs == {"", "1"}
\* request bodies: JSON null, a JSON object, malformed JSON, and JSON nested
\* deeper than the interpreter's recursion limit
Bodies == {"null", "obj", "malformed", "deep"}

\* bool(s) of a query-string value: request.args.get gives None or a str
Truthy(s) == s # ""

\* float(delay): the parsed number of seconds, or -1 for ValueError
ParseFloat(s) ==
    CASE s = "4.0" -> 4
      [] s = "6.0" -> 6
      [] OTHER -> -1

\* str(status) and int(code), as Str and IntOf, over the status codes the program produces
StatusInts == {200, 201, 204, 400, 404, 500}
Str(n) ==
    CASE n = 200 -> "200"
      [] n = 201 -> "201"
      [] n = 204 -> "204"
      [] n = 400 -> "400"
      [] n = 404 -> "404"
      [] n = 500 -> "500"
IntOf(s) ==
    CASE s = "200" -> 200
      [] s = "201" -> 201
      [] s = "204" -> 204
      [] s = "400" -> 400
      [] s = "404" -> 404
      [] s = "500" -> 500
CodeStrs == {Str(n) : n \in StatusInts}

\* the (method, route) pairs Flask binds to wrapped handlers
Endpoints ==
    { <<"GET", "/items">>, <<"POST", "/items">>,
      <<"GET", "/items/<id>">>, <<"PUT", "/items/<id>">>,
      <<"DELETE", "/items/<id>">> }

\* with_metrics(route)(f) for a view function f of any behaviour
Wrapped == <<"GET", "/f">>

NoRequest ==
    [method |-> "", route |-> "", item_id |-> 0, delay |-> "", fail |-> "",
     body |-> "null"]

\* the requests a client can send; a field that is never read (the body of
\* a GET or DELETE, or of a request that abort(500) stops) is fixed
Requests ==
    { [method |-> e[1], route |-> e[2], item_id |-> i, delay |-> d,
       fail |-> f, body |-> b] :
        e \in Endpoints, i \in ItemIds \cup {0}, d \in DelayInputs, f \in FailInputs,
        b \in Bodies }

WellFormed(r) ==
    /\ (r.route = "/items/<id>") <=> (r.item_id \in ItemIds)
    /\ (r.method \in {"GET", "DELETE"} \/ Truthy(r.fail)) => r.body = "null"

\* the requests to the view function f
WrappedRequests ==
    { [method |-> Wrapped[1], route |-> Wrapped[2], item_id |-> 0,
       delay |-> "", fail |-> f, body |-> "null"] : f \in FailInputs }

\* what a view function may return: a str, a dict, a Response, or a tuple
\* (body,), (body, status), (body, headers), (body, status, headers)
Responses ==
    {PyStr, PyDict, jsonify, PyObj("Response", 404, <<>>)}
    \cup {PyTuple(<<PyStr>>), PyTuple(<<PyStr, PyDict>>),
          PyTuple(<<jsonify, PyDict>>)}
    \cup {PyTuple(<<b, PyInt(n)>>) : b \in {PyStr, jsonify}, n \in StatusInts}
    \cup {PyTuple(<<PyStr, PyInt(n), PyDict>>) : n \in StatusInts}

\* what it may raise: an HTTPException of some code, one of no code (the
\* base class has code None), or any other exception
Errors ==
    {abort(n) : n \in {400, 404, 500}}
    \cup {PyObj("HTTPException", 0, <<>>), RecursionError,
          PyObj("KeyError", 0, <<>>)}

\* ------------------------------------------------------------------- state
VARIABLES
    now,            \* time.time(), in seconds
    admitted,       \* number of requests dispatched so far
    pc,             \* per worker: the line of app.py it is about to run
    req,            \* per worker: flask's request (method, args, body, view args)
    wake,           \* per worker: when its time.sleep(...) returns
    start, status, duration, code,      \* locals of wrapped
    result,         \* per worker: how f(*args, **kwargs) exited
    out,            \* per worker: how wrapped(*args, **kwargs) exited
    data, item, iter, copy,             \* locals of the handlers
    items,          \* the global `items`: a reference into lists
    lists,          \* the list objects ever bound to `items`
    dicts,          \* the item dicts ever created
    HTTP_REQUESTS, HTTP_DURATION, HTTP_ERRORS, HTTP_SLOW, LAST_DURATION,
    absent,         \* history: per worker, its item_id was not in the store
                    \* when its handler was invoked
    calls,          \* history: per (method, route), handlers invoked
    resolved,       \* history: per (method, route, code), statuses resolved
    applied         \* history: per worker, the metric updates of its request

metrics == <<HTTP_REQUESTS, HTTP_DURATION, HTTP_ERRORS, HTTP_SLOW, LAST_DURATION>>
store == <<items, lists, dicts>>
hlocals == <<data, item, iter, copy>>
wlocals == <<wake, start, status, duration, code>>
history == <<absent, calls, resolved, applied>>
vars ==
    <<now, admitted, pc, req, result, out, wlocals, hlocals, store, metrics,
      history>>

\* ------------------------------------------------ prometheus_client series
\* family.labels(...): the series of a label tuple, created on first use
Value(family, k) == IF k \in DOMAIN family THEN family[k] ELSE 0

\* Inc on a family that keeps no series but the one last incremented
IncFresh(family, k) == (k :> Value(family, k) + 1)

\* Counter.labels(k).inc()
Inc(family, k) ==
    [j \in DOMAIN family \cup {k} |-> IF j = k THEN Value(family, k) + 1
                                        ELSE family[j]]

NewHistogram(bounds) ==
    [sum |-> 0, buckets |-> [i \in 1..(Len(bounds) + 1) |-> 0]]

\* the bucket an observation of `amount` seconds falls in; the last one is +Inf
BucketOf(bounds, amount) ==
    IF \E i \in 1..Len(bounds) : amount * 1000 <= bounds[i]
    THEN CHOOSE i \in 1..Len(bounds) :
            /\ amount * 1000 <= bounds[i]
            /\ \A j \in 1..(i - 1) : amount * 1000 > bounds[j]
    ELSE Len(bounds) + 1

Series(family, bounds, k) ==
    IF k \in DOMAIN family THEN family[k] ELSE NewHistogram(bounds)

\* Histogram.labels(k).observe(amount)
Observe(family, bounds, k, amount) ==
    LET h == Series(family, bounds, k)
        b == BucketOf(bounds, amount)
        h2 == [sum |-> h.sum + amount,
               buckets |-> [h.buckets EXCEPT ![b] = @ + 1]]
    IN [j \in DOMAIN family \cup {k} |-> IF j = k THEN h2 ELSE family[j]]

RECURSIVE SumTo(_, _)
SumTo(f, n) == IF n = 0 THEN 0 ELSE f[n] + SumTo(f, n - 1)

\* the _count sample of a histogram series
Count(family, k) ==
    IF k \in DOMAIN family
    THEN SumTo(family[k].buckets, Len(family[k].buckets))
    ELSE 0

\* ------------------------------------------------------------------- Init
Init ==
    /\ now = 0
    /\ admitted = 0
    /\ pc = [w \in Workers |-> "idle"]
    /\ req = [w \in Workers |-> NoRequest]
    /\ wake = [w \in Workers |-> 0]
    /\ start = [w \in Workers |-> 0]
    /\ status = [w \in Workers |-> 0]
    /\ duration = [w \in Workers |-> 0]
    /\ code = [w \in Workers |-> ""]
    /\ result = [w \in Workers |-> NoOutcome]
    /\ out = [w \in Workers |-> NoOutcome]
    /\ data = [w \in Workers |-> "{}"]
    /\ item = [w \in Workers |-> 0]
    /\ iter = [w \in Workers |-> 0]
    /\ copy = [w \in Workers |-> <<>>]
    /\ items = 1
    /\ lists = << <<>> >>
    /\ dicts = <<>>
    /\ HTTP_REQUESTS = <<>>
    /\ HTTP_DURATION = <<>>
    /\ HTTP_ERRORS = <<>>
    /\ HTTP_SLOW = <<>>
    /\ LAST_DURATION = <<>>
    /\ absent = [w \in Workers |-> FALSE]
    /\ calls = [e \in Endpoints \cup {Wrapped} |-> 0]
    /\ resolved = <<>>
    /\ applied = [w \in Workers |-> <<>>]

\* ------------------------------------------------------------ with_metrics
\* the view function a request is routed to
Handler(r) ==
    CASE r.method = "GET" /\ r.route = "/items" -> "list_items"
      [] r.method = "POST" /\ r.route = "/items" -> "create_item"
      [] r.method = "GET" /\ r.route = "/items/<id>" -> "get_item"
      [] r.method = "PUT" /\ r.route = "/items/<id>" -> "update_item"
      [] r.method = "DELETE" /\ r.route = "/items/<id>" -> "delete_item"
      [] <<r.method, r.route>> = Wrapped -> "f"

\* Dispatch with the ValueError of float(delay) let out of wrapped
DispatchSurfacing(w, r, max) ==
    /\ pc[w] = "idle"
    /\ \A v \in Workers : pc[v] = "idle" => w <= v
    /\ admitted < max
    /\ WellFormed(r)
    /\ admitted' = admitted + 1
    /\ req' = [req EXCEPT ![w] = r]
    /\ IF Truthy(r.delay) /\ ParseFloat(r.delay) >= 0
       THEN /\ now + ParseFloat(r.delay) <= MaxTime
            /\ wake' = [wake EXCEPT ![w] = now + ParseFloat(r.delay)]
            /\ pc' = [pc EXCEPT ![w] = "sleep"]
            /\ out' = out
       ELSE /\ wake' = wake
            /\ IF Truthy(r.delay)
               THEN /\ out' = [out EXCEPT ![w] =
                                  Raise(PyObj("ValueError", 0, <<>>))]
                    /\ pc' = [pc EXCEPT ![w] = "done"]
               ELSE /\ out' = out
                    /\ pc' = [pc EXCEPT ![w] = "l36"]
    /\ UNCHANGED <<now, result, start, status, duration, code, hlocals,
                   store, metrics, history>>

\* lines 26-35: the framework calls wrapped on an idle worker thread (the
\* threads are alike: the lowest idle one stands for any); a truthy delay
\* that parses to a non-negative float puts it to sleep, any other is
\* passed over
Dispatch(w, r, max) ==
    /\ pc[w] = "idle"
    /\ \A v \in Workers : pc[v] = "idle" => w <= v
    /\ admitted < max
    /\ WellFormed(r)
    /\ admitted' = admitted + 1
    /\ req' = [req EXCEPT ![w] = r]
    /\ IF Truthy(r.delay) /\ ParseFloat(r.delay) >= 0
       THEN /\ now + ParseFloat(r.delay) <= MaxTime
            /\ wake' = [wake EXCEPT ![w] = now + ParseFloat(r.delay)]
            /\ pc' = [pc EXCEPT ![w] = "sleep"]
       ELSE /\ wake' = wake
            /\ pc' = [pc EXCEPT ![w] = "l36"]
    /\ UNCHANGED <<now, result, out, start, status, duration, code, hlocals,
                   store, metrics, history>>

\* line 33: time.sleep returns
WakeUp(w) ==
    /\ pc[w] = "sleep"
    /\ now >= wake[w]
    /\ pc' = [pc EXCEPT ![w] = "l36"]
    /\ UNCHANGED <<now, admitted, req, result, out, wlocals, hlocals, store,
                   metrics, history>>

\* Enter with the check of fail left out
EnterAnyway(w) ==
    /\ pc[w] = "l36"
    /\ start' = [start EXCEPT ![w] = now]
    /\ status' = [status EXCEPT ![w] = 200]
    /\ calls' = [calls EXCEPT ![<<req[w].method, req[w].route>>] = @ + 1]
    /\ absent' = [absent EXCEPT ![w] =
                     /\ req[w].route = "/items/<id>"
                     /\ \A n \in 1..Len(lists[items]) :
                           dicts[lists[items][n]].id # req[w].item_id]
    /\ pc' = [pc EXCEPT ![w] = Handler(req[w])]
    /\ UNCHANGED <<now, admitted, req, result, out, wake, duration, code,
                   hlocals, store, metrics, resolved, applied>>

\* lines 36-43: abort(500) on a truthy fail, else start the timer and call f
Enter(w) ==
    /\ pc[w] = "l36"
    /\ IF Truthy(req[w].fail)
       THEN /\ out' = [out EXCEPT ![w] = Raise(abort(500))]
            /\ pc' = [pc EXCEPT ![w] = "done"]
            /\ UNCHANGED <<start, status, calls, absent>>
       ELSE /\ start' = [start EXCEPT ![w] = now]
            /\ status' = [status EXCEPT ![w] = 200]
            /\ calls' = [calls EXCEPT ![<<req[w].method, req[w].route>>] = @ + 1]
            /\ absent' = [absent EXCEPT ![w] =
                             /\ req[w].route = "/items/<id>"
                             /\ \A n \in 1..Len(lists[items]) :
                                   dicts[lists[items][n]].id # req[w].item_id]
            /\ pc' = [pc EXCEPT ![w] = Handler(req[w])]
            /\ out' = out
    /\ UNCHANGED <<now, admitted, req, result, wake, duration, code, hlocals,
                   store, metrics, resolved, applied>>

\* StatusOfResponse without the (body, status) case
StatusOfResponseNoTuple(response, default) ==
    IF response.t = "Response" THEN response.code ELSE default

\* lines 45-48: the status of a returned response
StatusOfResponse(response, default) ==
    IF response.t = "tuple" /\ Len(response.elems) > 1
       /\ response.elems[2].t = "int"
    THEN response.elems[2].code
    ELSE IF response.t = "Response"
         THEN response.code
         ELSE default

\* StatusOfException as it was before HTTPException was told apart
StatusOfExceptionAll500(e) == 500

\* lines 53-57: the status of a raised exception
StatusOfException(e) ==
    IF e.t = "HTTPException" /\ e.code # 0
    THEN e.code
    ELSE 500

\* lines 44-61: f has returned or raised; settle status, stop the timer
Resolve(w) ==
    /\ pc[w] = "resolve"
    /\ LET s == IF result[w].kind = "return"
                THEN StatusOfResponse(result[w].val, status[w])
                ELSE StatusOfException(result[w].val)
           k == <<req[w].method, req[w].route, Str(s)>>
       IN /\ status' = [status EXCEPT ![w] = s]
          /\ code' = [code EXCEPT ![w] = Str(s)]
          /\ resolved' = Inc(resolved, k)
    /\ duration' = [duration EXCEPT ![w] = now - start[w]]
    /\ pc' = [pc EXCEPT ![w] = "l63"]
    /\ UNCHANGED <<now, admitted, req, result, out, wake, start, hlocals,
                   store, metrics, absent, calls, applied>>

Key3(w) == <<req[w].method, req[w].route, code[w]>>
Key2(w) == <<req[w].method, req[w].route>>
Note(w, u) == [applied EXCEPT ![w] = Append(@, u)]

\* RecordRequest placed after `return response` in the try body instead of
\* in the finally block: a handler that raises is not counted
RecordRequestOnReturn(w) ==
    /\ pc[w] = "l63"
    /\ HTTP_REQUESTS' = IF result[w].kind = "return"
                        THEN Inc(HTTP_REQUESTS, Key3(w))
                        ELSE HTTP_REQUESTS
    /\ applied' = IF result[w].kind = "return"
                  THEN Note(w, "requests")
                  ELSE applied
    /\ pc' = [pc EXCEPT ![w] = "l64"]
    /\ UNCHANGED <<now, admitted, req, result, out, wlocals, hlocals, store,
                   HTTP_DURATION, HTTP_ERRORS, HTTP_SLOW, LAST_DURATION,
                   absent, calls, resolved>>

\* RecordRequest with an unlocked read-modify-write: the increment is lost
\* when another worker is inside its own recording
RecordRequestRacy(w) ==
    /\ pc[w] = "l63"
    /\ HTTP_REQUESTS' =
         IF \E v \in Workers \ {w} : pc[v] \in {"l64", "l66", "l67", "l69"}
         THEN HTTP_REQUESTS
         ELSE Inc(HTTP_REQUESTS, Key3(w))
    /\ applied' = Note(w, "requests")
    /\ pc' = [pc EXCEPT ![w] = "l64"]
    /\ UNCHANGED <<now, admitted, req, result, out, wlocals, hlocals, store,
                   HTTP_DURATION, HTTP_ERRORS, HTTP_SLOW, LAST_DURATION,
                   absent, calls, resolved>>

\* RecordRequest with the registry held by a request for as long as it
\* sleeps
RecordRequestLocked(w) ==
    /\ pc[w] = "l63"
    /\ \A v \in Workers : pc[v] # "sleep"
    /\ HTTP_REQUESTS' = Inc(HTTP_REQUESTS, Key3(w))
    /\ applied' = Note(w, "requests")
    /\ pc' = [pc EXCEPT ![w] = "l64"]
    /\ UNCHANGED <<now, admitted, req, result, out, wlocals, hlocals, store,
                   HTTP_DURATION, HTTP_ERRORS, HTTP_SLOW, LAST_DURATION,
                   absent, calls, resolved>>

\* line 63
RecordRequest(w) ==
    /\ pc[w] = "l63"
    /\ HTTP_REQUESTS' = Inc(HTTP_REQUESTS, Key3(w))
    /\ applied' = Note(w, "requests")
    /\ pc' = [pc EXCEPT ![w] = "l64"]
    /\ UNCHANGED <<now, admitted, req, result, out, wlocals, hlocals, store,
                   HTTP_DURATION, HTTP_ERRORS, HTTP_SLOW, LAST_DURATION,
                   absent, calls, resolved>>

\* RecordDuration placed in the try body: a handler that raises is not
\* observed
RecordDurationOnReturn(w) ==
    /\ pc[w] = "l64"
    /\ HTTP_DURATION' =
         IF result[w].kind = "return"
         THEN Observe(HTTP_DURATION, HTTP_DURATION_buckets, Key3(w), duration[w])
         ELSE HTTP_DURATION
    /\ applied' = Note(w, "duration")
    /\ pc' = [pc EXCEPT ![w] = "l66"]
    /\ UNCHANGED <<now, admitted, req, result, out, wlocals, hlocals, store,
                   HTTP_REQUESTS, HTTP_ERRORS, HTTP_SLOW, LAST_DURATION,
                   absent, calls, resolved>>

\* line 64
RecordDuration(w) ==
    /\ pc[w] = "l64"
    /\ HTTP_DURATION' =
         Observe(HTTP_DURATION, HTTP_DURATION_buckets, Key3(w), duration[w])
    /\ applied' = Note(w, "duration")
    /\ pc' = [pc EXCEPT ![w] = "l66"]
    /\ UNCHANGED <<now, admitted, req, result, out, wlocals, hlocals, store,
                   HTTP_REQUESTS, HTTP_ERRORS, HTTP_SLOW, LAST_DURATION,
                   absent, calls, resolved>>

\* line 66
RecordLast(w) ==
    /\ pc[w] = "l66"
    /\ LAST_DURATION' =
         Observe(LAST_DURATION, LAST_DURATION_buckets, Key2(w), duration[w])
    /\ applied' = Note(w, "last")
    /\ pc' = [pc EXCEPT ![w] = "l67"]
    /\ UNCHANGED <<now, admitted, req, result, out, wlocals, hlocals, store,
                   HTTP_REQUESTS, HTTP_DURATION, HTTP_ERRORS, HTTP_SLOW,
                   absent, calls, resolved>>

\* RecordError with `int(code) > 500`
RecordErrorAbove500(w) ==
    /\ pc[w] = "l67"
    /\ IF IntOf(code[w]) > 500
       THEN /\ HTTP_ERRORS' = Inc(HTTP_ERRORS, Key3(w))
            /\ applied' = Note(w, "errors")
       ELSE UNCHANGED <<HTTP_ERRORS, applied>>
    /\ pc' = [pc EXCEPT ![w] = "l69"]
    /\ UNCHANGED <<now, admitted, req, result, out, wlocals, hlocals, store,
                   HTTP_REQUESTS, HTTP_DURATION, HTTP_SLOW, LAST_DURATION,
                   absent, calls, resolved>>

\* RecordError with `int(code) >= 400`
RecordErrorFrom400(w) ==
    /\ pc[w] = "l67"
    /\ IF IntOf(code[w]) >= 400
       THEN /\ HTTP_ERRORS' = Inc(HTTP_ERRORS, Key3(w))
            /\ applied' = Note(w, "errors")
       ELSE UNCHANGED <<HTTP_ERRORS, applied>>
    /\ pc' = [pc EXCEPT ![w] = "l69"]
    /\ UNCHANGED <<now, admitted, req, result, out, wlocals, hlocals, store,
                   HTTP_REQUESTS, HTTP_DURATION, HTTP_SLOW, LAST_DURATION,
                   absent, calls, resolved>>

\* RecordError without the test of line 67
RecordErrorEvery(w) ==
    /\ pc[w] = "l67"
    /\ HTTP_ERRORS' = Inc(HTTP_ERRORS, Key3(w))
    /\ applied' = Note(w, "errors")
    /\ pc' = [pc EXCEPT ![w] = "l69"]
    /\ UNCHANGED <<now, admitted, req, result, out, wlocals, hlocals, store,
                   HTTP_REQUESTS, HTTP_DURATION, HTTP_SLOW, LAST_DURATION,
                   absent, calls, resolved>>

\* lines 67-68
RecordError(w) ==
    /\ pc[w] = "l67"
    /\ IF IntOf(code[w]) >= 500
       THEN /\ HTTP_ERRORS' = Inc(HTTP_ERRORS, Key3(w))
            /\ applied' = Note(w, "errors")
       ELSE UNCHANGED <<HTTP_ERRORS, applied>>
    /\ pc' = [pc EXCEPT ![w] = "l69"]
    /\ UNCHANGED <<now, admitted, req, result, out, wlocals, hlocals, store,
                   HTTP_REQUESTS, HTTP_DURATION, HTTP_SLOW, LAST_DURATION,
                   absent, calls, resolved>>

\* RecordSlow with a `return` inside the finally block: a raised error is
\* swallowed and None returned in its place
RecordSlowSwallow(w) ==
    /\ pc[w] = "l69"
    /\ IF duration[w] >= SLOW_THRESHOLD
       THEN /\ HTTP_SLOW' = Inc(HTTP_SLOW, Key2(w))
            /\ applied' = Note(w, "slow")
       ELSE UNCHANGED <<HTTP_SLOW, applied>>
    /\ out' = [out EXCEPT ![w] = IF result[w].kind = "raise"
                                 THEN Return(PyNone)
                                 ELSE result[w]]
    /\ pc' = [pc EXCEPT ![w] = "done"]
    /\ UNCHANGED <<now, admitted, req, result, wlocals, hlocals, store,
                   HTTP_REQUESTS, HTTP_DURATION, HTTP_ERRORS, LAST_DURATION,
                   absent, calls, resolved>>

\* RecordSlow with `duration > SLOW_THRESHOLD`
RecordSlowAbove(w) ==
    /\ pc[w] = "l69"
    /\ IF duration[w] > SLOW_THRESHOLD
       THEN /\ HTTP_SLOW' = Inc(HTTP_SLOW, Key2(w))
            /\ applied' = Note(w, "slow")
       ELSE UNCHANGED <<HTTP_SLOW, applied>>
    /\ out' = [out EXCEPT ![w] = result[w]]
    /\ pc' = [pc EXCEPT ![w] = "done"]
    /\ UNCHANGED <<now, admitted, req, result, wlocals, hlocals, store,
                   HTTP_REQUESTS, HTTP_DURATION, HTTP_ERRORS, LAST_DURATION,
                   absent, calls, resolved>>

\* lines 69-70, then the pending `return response` (line 49) or `raise`
\* (line 58) leaves wrapped
RecordSlow(w) ==
    /\ pc[w] = "l69"
    /\ IF duration[w] >= SLOW_THRESHOLD
       THEN /\ HTTP_SLOW' = Inc(HTTP_SLOW, Key2(w))
            /\ applied' = Note(w, "slow")
       ELSE UNCHANGED <<HTTP_SLOW, applied>>
    /\ out' = [out EXCEPT ![w] = result[w]]
    /\ pc' = [pc EXCEPT ![w] = "done"]
    /\ UNCHANGED <<now, admitted, req, result, wlocals, hlocals, store,
                   HTTP_REQUESTS, HTTP_DURATION, HTTP_ERRORS, LAST_DURATION,
                   absent, calls, resolved>>

\* the framework turns wrapped's exit into the HTTP response; the worker
\* thread is free for the next request
Complete(w) ==
    /\ pc[w] = "done"
    /\ pc' = [pc EXCEPT ![w] = "idle"]
    /\ req' = [req EXCEPT ![w] = NoRequest]
    /\ result' = [result EXCEPT ![w] = NoOutcome]
    /\ out' = [out EXCEPT ![w] = NoOutcome]
    /\ wake' = [wake EXCEPT ![w] = 0]
    /\ start' = [start EXCEPT ![w] = 0]
    /\ status' = [status EXCEPT ![w] = 0]
    /\ duration' = [duration EXCEPT ![w] = 0]
    /\ code' = [code EXCEPT ![w] = ""]
    /\ data' = [data EXCEPT ![w] = "{}"]
    /\ item' = [item EXCEPT ![w] = 0]
    /\ iter' = [iter EXCEPT ![w] = 0]
    /\ copy' = [copy EXCEPT ![w] = <<>>]
    /\ applied' = [applied EXCEPT ![w] = <<>>]
    /\ absent' = [absent EXCEPT ![w] = FALSE]
    /\ UNCHANGED <<now, admitted, store, metrics, calls, resolved>>

\* between line 40 and line 60 of a request the clock is being measured
Timing(w) == pc[w] \notin {"idle", "sleep", "l36", "l63", "l64", "l66", "l67", "l69", "done"}

\* the wall clock advances; only a sleeping or a timed request can tell
Tick ==
    /\ now < MaxTime
    /\ \E w \in Workers : pc[w] = "sleep" \/ Timing(w)
    /\ now' = now + 1
    /\ UNCHANGED <<admitted, pc, req, result, out, wlocals, hlocals, store,
                   metrics, history>>

\* ---------------------------------------------------------------- handlers
\* request.get_json(): the parsed body, or how parsing it raises.  Malformed
\* JSON is werkzeug's BadRequest; nesting past the recursion limit escapes
\* as a RecursionError
get_json(body) ==
    CASE body = "malformed" -> Raise(abort(400))
      [] body = "deep" -> Raise(RecursionError)
      [] body = "null" -> Return(PyNone)
      [] OTHER -> Return(PyDict)

\* `request.get_json() or {}` as the value kept in an item's 'data'
DataOf(body) == IF get_json(body).val.t = "dict" THEN body ELSE "{}"

Finish(w, o) ==
    /\ result' = [result EXCEPT ![w] = o]
    /\ pc' = [pc EXCEPT ![w] = "resolve"]

\* the position of the first dict of list object l whose 'id' is i, 0 if none
Find(l, i) ==
    IF \E n \in 1..Len(lists[l]) : dicts[lists[l][n]].id = i
    THEN CHOOSE n \in 1..Len(lists[l]) :
            /\ dicts[lists[l][n]].id = i
            /\ \A m \in 1..(n - 1) : dicts[lists[l][m]].id # i
    ELSE 0

\* [x for x in l if x['id'] != i]
RECURSIVE Without(_, _)
Without(l, i) ==
    IF l = <<>> THEN <<>>
    ELSE IF dicts[Head(l)].id # i
         THEN <<Head(l)>> \o Without(Tail(l), i)
         ELSE Without(Tail(l), i)

\* line 115
list_items(w) ==
    /\ pc[w] = "list_items"
    /\ Finish(w, Return(jsonify))
    /\ UNCHANGED <<now, admitted, req, out, wlocals, hlocals, store, metrics,
                   history>>

\* lines 144-145: parse the body, build item from len(items)
create_item(w) ==
    /\ pc[w] = "create_item"
    /\ IF get_json(req[w].body).kind = "raise"
       THEN /\ Finish(w, get_json(req[w].body))
            /\ UNCHANGED <<data, item, dicts>>
       ELSE /\ data' = [data EXCEPT ![w] = DataOf(req[w].body)]
            /\ dicts' = Append(dicts, [id |-> Len(lists[items]) + 1,
                                       data |-> DataOf(req[w].body)])
            /\ item' = [item EXCEPT ![w] = Len(dicts) + 1]
            /\ pc' = [pc EXCEPT ![w] = "create_146"]
            /\ result' = result
    /\ UNCHANGED <<now, admitted, req, out, wlocals, iter, copy, items, lists,
                   metrics, history>>

\* line 146: load the global `items`
create_load(w) ==
    /\ pc[w] = "create_146"
    /\ iter' = [iter EXCEPT ![w] = items]
    /\ pc' = [pc EXCEPT ![w] = "create_append"]
    /\ UNCHANGED <<now, admitted, req, result, out, wlocals, data, item, copy,
                   store, metrics, history>>

\* lines 146-147: append to the loaded list, return (jsonify(item), 201)
create_append(w) ==
    /\ pc[w] = "create_append"
    /\ lists' = [lists EXCEPT ![iter[w]] = Append(@, item[w])]
    /\ Finish(w, Return(PyTuple(<<jsonify, PyInt(201)>>)))
    /\ UNCHANGED <<now, admitted, req, out, wlocals, hlocals, items, dicts,
                   metrics, history>>

\* line 175: iter(items)
get_item(w) ==
    /\ pc[w] = "get_item"
    /\ iter' = [iter EXCEPT ![w] = items]
    /\ pc' = [pc EXCEPT ![w] = "get_scan"]
    /\ UNCHANGED <<now, admitted, req, result, out, wlocals, data, item, copy,
                   store, metrics, history>>

\* lines 175-178: a list object only ever grows at its end, so the loop's
\* answer is that of one look at the list when the loop ends
get_scan(w) ==
    /\ pc[w] = "get_scan"
    /\ IF Find(iter[w], req[w].item_id) # 0
       THEN Finish(w, Return(jsonify))
       ELSE Finish(w, Raise(abort(404)))
    /\ UNCHANGED <<now, admitted, req, out, wlocals, hlocals, store, metrics,
                   history>>

\* lines 204-205: parse the body, iter(items)
update_item(w) ==
    /\ pc[w] = "update_item"
    /\ IF get_json(req[w].body).kind = "raise"
       THEN /\ Finish(w, get_json(req[w].body))
            /\ UNCHANGED <<data, iter>>
       ELSE /\ data' = [data EXCEPT ![w] = DataOf(req[w].body)]
            /\ iter' = [iter EXCEPT ![w] = items]
            /\ pc' = [pc EXCEPT ![w] = "update_scan"]
            /\ result' = result
    /\ UNCHANGED <<now, admitted, req, out, wlocals, item, copy, store,
                   metrics, history>>

\* lines 205-209
update_scan(w) ==
    /\ pc[w] = "update_scan"
    /\ LET n == Find(iter[w], req[w].item_id)
       IN IF n # 0
          THEN /\ dicts' = [dicts EXCEPT ![lists[iter[w]][n]].data = data[w]]
               /\ Finish(w, Return(jsonify))
          ELSE /\ dicts' = dicts
               /\ Finish(w, Raise(abort(404)))
    /\ UNCHANGED <<now, admitted, req, out, wlocals, hlocals, items, lists,
                   metrics, history>>

\* line 231: iter(items)
delete_item(w) ==
    /\ pc[w] = "delete_item"
    /\ iter' = [iter EXCEPT ![w] = items]
    /\ pc' = [pc EXCEPT ![w] = "delete_scan"]
    /\ UNCHANGED <<now, admitted, req, result, out, wlocals, data, item, copy,
                   store, metrics, history>>

\* lines 231-232, 235
delete_scan(w) ==
    /\ pc[w] = "delete_scan"
    /\ IF Find(iter[w], req[w].item_id) # 0
       THEN /\ pc' = [pc EXCEPT ![w] = "delete_233"]
            /\ result' = result
       ELSE Finish(w, Raise(abort(404)))
    /\ UNCHANGED <<now, admitted, req, out, wlocals, hlocals, store, metrics,
                   history>>

\* line 233: load the global `items` for the comprehension
delete_load(w) ==
    /\ pc[w] = "delete_233"
    /\ iter' = [iter EXCEPT ![w] = items]
    /\ pc' = [pc EXCEPT ![w] = "delete_filter"]
    /\ UNCHANGED <<now, admitted, req, result, out, wlocals, data, item, copy,
                   store, metrics, history>>

\* line 233: the comprehension runs over the loaded list
delete_filter(w) ==
    /\ pc[w] = "delete_filter"
    /\ copy' = [copy EXCEPT ![w] = Without(lists[iter[w]], req[w].item_id)]
    /\ pc' = [pc EXCEPT ![w] = "delete_store"]
    /\ UNCHANGED <<now, admitted, req, result, out, wlocals, data, item, iter,
                   store, metrics, history>>

\* lines 233-234: bind the global `items` to the new list, return ('', 204)
delete_store(w) ==
    /\ pc[w] = "delete_store"
    /\ lists' = Append(lists, copy[w])
    /\ items' = Len(lists) + 1
    /\ Finish(w, Return(PyTuple(<<PyStr, PyInt(204)>>)))
    /\ UNCHANGED <<now, admitted, req, out, wlocals, hlocals, dicts, metrics,
                   history>>

\* line 43 for a view function of any behaviour: it returns or it raises
f(w) ==
    /\ pc[w] = "f"
    /\ \E o \in {Return(v) : v \in Responses} \cup {Raise(e) : e \in Errors} :
          Finish(w, o)
    /\ UNCHANGED <<now, admitted, req, out, wlocals, hlocals, store, metrics,
                   history>>

\* ------------------------------------------------------------- specification
\* requests without a delay directive
Undelayed == {r \in Requests : r.delay = ""}

\* one step of a request on its way through wrapped and its handler
Serve(w) ==
    \/ Enter(w)
    \/ list_items(w)
    \/ create_item(w)
    \/ create_load(w)
    \/ create_append(w)
    \/ get_item(w)
    \/ get_scan(w)
    \/ update_item(w)
    \/ update_scan(w)
    \/ delete_item(w)
    \/ delete_scan(w)
    \/ delete_load(w)
    \/ delete_filter(w)
    \/ delete_store(w)
    \/ Resolve(w)
    \/ RecordRequest(w)
    \/ RecordDuration(w)
    \/ RecordLast(w)
    \/ RecordError(w)
    \/ RecordSlow(w)
    \/ Complete(w)

\* Spec: the worker threads serve requests concurrently, each request in
\* no measurable time
Next ==
    \/ \E w \in Workers, r \in Undelayed : Dispatch(w, r, MaxRequests)
    \/ \E w \in Workers : Serve(w)

Spec == Init /\ [][Next]_vars

\* SpecTimed: one request at a time, the clock running
NextTimed ==
    \/ \E r \in Requests : Dispatch(1, r, MaxTimedRequests)
    \/ WakeUp(1)
    \/ Serve(1)
    \/ Tick

SpecTimed == Init /\ [][NextTimed]_vars

\* SpecWrapped: one request at a time, to the five handlers and to a view
\* function of any behaviour
NextWrapped ==
    \/ \E r \in Undelayed \cup WrappedRequests :
          Dispatch(1, r, MaxWrappedRequests)
    \/ Serve(1)
    \/ f(1)

SpecWrapped == Init /\ [][NextWrapped]_vars

\* the requests of SpecDelay: GET /items at once or after 6 seconds of
\* delay, and a PUT whose body cannot be parsed within the recursion limit
Delayable ==
    {r \in Requests :
        /\ r.fail = ""
        /\ \/ r.method = "GET" /\ r.route = "/items" /\ r.delay \in {"", "6.0"}
           \/ r.method = "PUT" /\ r.body = "deep" /\ r.delay = ""}

\* one step of a Delayable request past its delay
ServeDelay(w) ==
    \/ Enter(w)
    \/ list_items(w)
    \/ update_item(w)
    \/ Resolve(w)
    \/ RecordRequest(w)
    \/ RecordDuration(w)
    \/ RecordLast(w)
    \/ RecordError(w)
    \/ RecordSlow(w)
    \/ Complete(w)

\* SpecDelay: the worker threads serve Delayable requests concurrently, the
\* clock running
NextDelay ==
    \/ \E w \in Workers, r \in Delayable : Dispatch(w, r, MaxDelayRequests)
    \/ \E w \in Workers : WakeUp(w)
    \/ \E w \in Workers : ServeDelay(w)
    \/ Tick

SpecDelay == Init /\ [][NextDelay]_vars

\* the requests of SpecStore: create, update and delete with a JSON object
\* for body and no directive
Storing ==
    {r \in Undelayed :
        /\ r.fail = ""
        /\ r.method \in {"POST", "PUT", "DELETE"}
        /\ r.method \in {"POST", "PUT"} => r.body = "obj"}

\* one step of a Storing request
ServeStore(w) ==
    \/ Enter(w)
    \/ create_item(w)
    \/ create_load(w)
    \/ create_append(w)
    \/ update_item(w)
    \/ update_scan(w)
    \/ delete_item(w)
    \/ delete_scan(w)
    \/ delete_load(w)
    \/ delete_filter(w)
    \/ delete_store(w)
    \/ Resolve(w)
    \/ RecordRequest(w)
    \/ RecordDuration(w)
    \/ RecordLast(w)
    \/ RecordError(w)
    \/ RecordSlow(w)
    \/ Complete(w)

\* SpecStore: Storing requests, one at a time
NextStore ==
    \/ \E r \in Storing : Dispatch(1, r, MaxStoreRequests)
    \/ ServeStore(1)

SpecStore == Init /\ [][NextStore]_vars

\* ------------------------------------------------------------------ claims
RECURSIVE SumOver(_, _)
SumOver(family, ks) ==
    IF ks = {} THEN 0
    ELSE LET k == CHOOSE x \in ks : TRUE
         IN family[k] + SumOver(family, ks \ {k})

\* a counter family of (method, route, code), summed over the codes
SumCodes(family, e) ==
    SumOver(family, {k \in DOMAIN family : k[1] = e[1] /\ k[2] = e[2]})

Occurrences(seq, u) == Cardinality({n \in 1..Len(seq) : seq[n] = u})

\* a request whose handler was invoked
Called(w) == pc[w] \notin {"idle", "sleep", "l36"} /\ result[w].kind # "none"

\* requests to endpoint e whose handler is invoked and line 63 still ahead
Pending(e) ==
    Cardinality({w \in Workers : Key2(w) = e /\ (Timing(w) \/ pc[w] = "l63")})

\* C1: every request whose handler was invoked is counted exactly once: per
\* (method, route) the request counter summed over the codes equals the
\* number of handler invocations that have reached line 63, and a request
\* that leaves wrapped after its handler ran has made exactly one increment
C1_RecordedExactlyOnce ==
    /\ \A e \in Endpoints :
         SumCodes(HTTP_REQUESTS, e) + Pending(e) = calls[e]
    /\ \A w \in Workers :
         /\ Occurrences(applied[w], "requests") <= 1
         /\ (pc[w] = "done" /\ Called(w)) =>
               Occurrences(applied[w], "requests") = 1

\* C1's case: a handler that raised an unexpected error has been recorded
C1_Witness ==
    \E w \in Workers :
        /\ pc[w] = "done"
        /\ result[w] = Raise(RecursionError)
        /\ SumCodes(HTTP_REQUESTS, Key2(w)) >= 1

\* C2: a request with a truthy fail gets a 500 and is counted, under code
\* 500, by the request counter and by the error counter
C2_ForcedFailureCounted ==
    \A w \in Workers :
        (pc[w] = "done" /\ Truthy(req[w].fail)) =>
            /\ out[w] = Raise(abort(500))
            /\ Value(HTTP_REQUESTS, <<req[w].method, req[w].route, "500">>) >= 1
            /\ Value(HTTP_ERRORS, <<req[w].method, req[w].route, "500">>) >= 1

\* C3: no request leaves wrapped without having reached the recording step
C3_EveryRequestRecords ==
    \A w \in Workers :
        pc[w] = "done" => Occurrences(applied[w], "requests") >= 1

\* C4: the timer starts before the delay, so a request delayed by 6.0
\* seconds whose handler takes no time is counted slow
C4_DelayIsMeasured ==
    \A w \in Workers :
        (pc[w] = "done" /\ Called(w) /\ req[w].delay = "6.0"
         /\ now = wake[w]) =>
            Value(HTTP_SLOW, Key2(w)) >= 1

\* worker w's handler has exited and its status is settled
Settled(w) == pc[w] \in {"l63", "l64", "l66", "l67", "l69", "done"} /\ Called(w)

\* the metric updates due for worker w's request, in the order of lines 63-70
Applicable(w) ==
    <<"requests", "duration", "last">>
    \o (IF IntOf(code[w]) >= 500 THEN <<"errors">> ELSE <<>>)
    \o (IF duration[w] >= SLOW_THRESHOLD THEN <<"slow">> ELSE <<>>)

\* the aggregates agree with each other, as after whole recordings only
Consistent ==
    /\ \A e \in Endpoints :
         Count(LAST_DURATION, e) = SumCodes(HTTP_REQUESTS, e)
    /\ \A k \in DOMAIN HTTP_REQUESTS \cup DOMAIN HTTP_DURATION
                \cup DOMAIN HTTP_ERRORS :
         /\ Count(HTTP_DURATION, k) = Value(HTTP_REQUESTS, k)
         /\ IntOf(k[3]) >= 500 => Value(HTTP_ERRORS, k) = Value(HTTP_REQUESTS, k)
         /\ IntOf(k[3]) < 500 => Value(HTTP_ERRORS, k) = 0

\* C5 as claimed: a recording is never seen partially applied, each request
\* has made none or all of its updates and the aggregates always agree
C5_NeverPartial ==
    /\ Consistent
    /\ \A w \in Workers :
         pc[w] \in {"l64", "l66", "l67", "l69"} =>
            applied[w] \in {<<>>, Applicable(w)}

\* C5 as amended: the updates are applied one series at a time in the order
\* of lines 63-70; a recording is partial only while its request is between
\* line 63 and the end of line 70: a request that has left the recording
\* step has made all its updates, and whenever no request is inside the
\* recording step the aggregates agree
C5_PartialOnlyWhileRecording ==
    /\ \A w \in Workers :
         IF Settled(w)
         THEN /\ Len(applied[w]) <= Len(Applicable(w))
              /\ \A n \in 1..Len(applied[w]) : applied[w][n] = Applicable(w)[n]
              /\ pc[w] = "done" => applied[w] = Applicable(w)
         ELSE applied[w] = <<>>
    /\ (\A w \in Workers : pc[w] \notin {"l64", "l66", "l67", "l69"}) =>
         Consistent

\* C5's case: while one request sits between two of its updates, another
\* has completed a recording that includes the error counter
C5_Witness ==
    \E w, v \in Workers :
        /\ pc[w] = "done" /\ code[w] = "500"
        /\ applied[w] = <<"requests", "duration", "last", "errors">>
        /\ pc[v] = "l66"

\* C6: no increment of the request counter is lost or duplicated: per
\* (method, route, code) the counter equals the number of requests that
\* resolved to the code and have passed line 63, under any interleaving;
\* GET /items without directives always resolves to 200 and never touches
\* the error counter
C6_NoLostIncrements ==
    /\ \A k \in DOMAIN HTTP_REQUESTS \cup DOMAIN resolved :
         Value(HTTP_REQUESTS, k)
           + Cardinality({w \in Workers : pc[w] = "l63" /\ Key3(w) = k})
           = Value(resolved, k)
    /\ \A w \in Workers :
         (pc[w] = "done" /\ Called(w) /\ Key2(w) = <<"GET", "/items">>) =>
            code[w] = "200"
    /\ SumCodes(HTTP_ERRORS, <<"GET", "/items">>) = 0

\* C6's case: three GET /items on the empty store are done, the last of
\* them overlapping another, and the counter reads 3
C6_Witness ==
    /\ \A w \in Workers : pc[w] = "done"
    /\ admitted = 3
    /\ dicts = <<>>
    /\ HTTP_REQUESTS = (<<"GET", "/items", "200">> :> 3)

\* a PUT's body that request.get_json() parses
BodyParses(w) == get_json(req[w].body).kind = "return"

\* requests answered 4xx are counted as requests, never as errors
ClientErrorsAreNotErrors ==
    /\ \A k \in DOMAIN HTTP_ERRORS : IntOf(k[3]) \notin 400..499
    /\ \A w \in Workers :
         (pc[w] = "done" /\ Called(w) /\ status[w] \in 400..499) =>
            /\ Value(HTTP_REQUESTS, Key3(w)) >= 1
            /\ Occurrences(applied[w], "errors") = 0

\* C7 as claimed: a 4xx request is counted as a request and never as an
\* error, and every GET, PUT or DELETE of an id absent from the store is
\* recorded as such a 404
C7_AbsentIdIs404 ==
    /\ ClientErrorsAreNotErrors
    /\ \A w \in Workers :
         (pc[w] = "done" /\ absent[w]) =>
            /\ code[w] = "404"
            /\ Occurrences(applied[w], "errors") = 0

\* C7 as amended: a 4xx request is counted as a request and never as an
\* error; a GET or DELETE of an id absent from the store, and a PUT of one
\* whose body parses, is recorded as a 404
C7_AbsentIdIs404WhenBodyParses ==
    /\ ClientErrorsAreNotErrors
    /\ \A w \in Workers :
         (pc[w] = "done" /\ absent[w] /\ BodyParses(w)) =>
            /\ code[w] = "404"
            /\ out[w] = Raise(abort(404))
            /\ Value(HTTP_REQUESTS, <<req[w].method, req[w].route, "404">>) >= 1
            /\ Occurrences(applied[w], "errors") = 0

\* C7's case: a DELETE of an id that was created and deleted before is
\* answered 404, with no error counted
C7_Witness ==
    \E w \in Workers :
        /\ pc[w] = "done" /\ absent[w]
        /\ req[w].method = "DELETE"
        /\ Len(dicts) >= 1
        /\ code[w] = "404"
        /\ HTTP_ERRORS = <<>>

\* C8: after a normal return the recorded code is the second element of a
\* tuple longer than 1 whose second element is an int, else the value's
\* status_code if it has one, else 200; create_item records 201 and a
\* delete_item that found its item records 204
C8_StatusOfReturn ==
    \A w \in Workers :
        (Settled(w) /\ result[w].kind = "return") =>
            LET v == result[w].val
                pair == v.t = "tuple" /\ Len(v.elems) >= 2
                        /\ v.elems[2].t = "int"
            IN /\ pair => status[w] = v.elems[2].code
               /\ (~pair /\ v.t = "Response") => status[w] = v.code
               /\ (~pair /\ v.t # "Response") => status[w] = 200
               /\ code[w] = Str(status[w])
               /\ pc[w] = "done" => Value(HTTP_REQUESTS, Key3(w)) >= 1
               /\ Key2(w) = <<"POST", "/items">> => code[w] = "201"
               /\ Key2(w) = <<"DELETE", "/items/<id>">> => code[w] = "204"

\* C8's case: a view function returned (body, 404, headers), create_item
\* was counted under 201 before
C8_Witness ==
    \E w \in Workers :
        /\ pc[w] = "done"
        /\ result[w] = Return(PyTuple(<<PyStr, PyInt(404), PyDict>>))
        /\ code[w] = "404"
        /\ Value(HTTP_REQUESTS, <<"POST", "/items", "201">>) = 1

\* C9: after a raise the recorded code is the exception's own code when it
\* is an HTTPException that has one, and 500 otherwise; an exception
\* without a code is counted under 500 by the error counter too
C9_StatusOfRaise ==
    \A w \in Workers :
        (Settled(w) /\ result[w].kind = "raise") =>
            LET e == result[w].val
                http == e.t = "HTTPException" /\ e.code # 0
            IN /\ http => status[w] = e.code
               /\ ~http => status[w] = 500
               /\ code[w] = Str(status[w])
               /\ (~http /\ pc[w] = "done") =>
                     /\ Occurrences(applied[w], "errors") = 1
                     /\ Value(HTTP_ERRORS,
                              <<req[w].method, req[w].route, "500">>) >= 1

\* C9's case: a KeyError was counted as an error under 500, after an
\* abort(404) that was recorded under 404
C9_Witness ==
    \E w \in Workers :
        /\ pc[w] = "done"
        /\ result[w].val.t = "KeyError"
        /\ Value(HTTP_ERRORS, <<req[w].method, req[w].route, "500">>) = 1
        /\ Value(HTTP_REQUESTS, <<"GET", "/items/<id>", "404">>) = 1

\* C10: wrapped exits the way the handler did: it returns the value the
\* handler returned, or raises the exception the handler raised
C10_OutcomeUnchanged ==
    \A w \in Workers :
        /\ (pc[w] = "done" /\ Called(w)) => out[w] = result[w]
        /\ (pc[w] # "done") => out[w] = NoOutcome

\* C10's case: the handler's abort(404) leaves wrapped after the recording
C10_Witness ==
    \E w \in Workers :
        /\ pc[w] = "done"
        /\ result[w] = Raise(abort(404))
        /\ out[w] = Raise(abort(404))
        /\ applied[w] = <<"requests", "duration", "last">>

NoDelay(r) == ~(Truthy(r.delay) /\ ParseFloat(r.delay) >= 0)

\* the code worker w's request resolves to when nothing but its method,
\* route, body and the presence of its item id are looked at
CodeWithoutDelay(w) ==
    LET r == req[w]
        parsed == get_json(r.body)
        ofRaise == IF parsed.val.t = "HTTPException" THEN parsed.val.code ELSE 500
    IN CASE Handler(r) = "list_items" -> 200
         [] Handler(r) = "create_item" ->
                IF parsed.kind = "raise" THEN ofRaise ELSE 201
         [] Handler(r) = "get_item" -> IF absent[w] THEN 404 ELSE 200
         [] Handler(r) = "update_item" ->
                IF parsed.kind = "raise" THEN ofRaise
                ELSE IF absent[w] THEN 404 ELSE 200
         [] Handler(r) = "delete_item" -> IF absent[w] THEN 404 ELSE 204

\* C12: a request whose delay is absent or unparseable is never suspended
\* and never answered with the parse failure: it goes straight to line 36
\* as a request without delay does, its handler is invoked, and it leaves
\* with the handler's own outcome, the code and the metric updates that its
\* method, route, body and item id determine (a forced failure leaves with
\* its 500 either way)
C12_MalformedDelayIgnored ==
    [][\A w \in Workers :
        /\ (pc[w] = "idle" /\ pc'[w] # "idle" /\ NoDelay(req'[w])) =>
              /\ pc'[w] = "l36"
              /\ UNCHANGED <<now, wake, out, result, store, metrics>>
        /\ (pc[w] # "done" /\ pc'[w] = "done" /\ NoDelay(req[w])) =>
              IF Truthy(req[w].fail)
              THEN /\ out'[w] = Raise(abort(500))
                   /\ applied'[w] = <<>>
              ELSE /\ result[w].kind # "none"
                   /\ out'[w] = result[w]
                   /\ code[w] = Str(CodeWithoutDelay(w))
                   /\ duration[w] = now - start[w]
                   /\ applied'[w] =
                        <<"requests", "duration", "last">>
                        \o (IF CodeWithoutDelay(w) >= 500
                            THEN <<"errors">> ELSE <<>>)
                        \o (IF duration[w] >= SLOW_THRESHOLD
                            THEN <<"slow">> ELSE <<>>)
      ]_vars

\* C12's case: a POST with an unparseable delay has created its item and
\* been recorded under 201
C12_Witness ==
    \E w \in Workers :
        /\ pc[w] = "done"
        /\ req[w].delay = "abc"
        /\ req[w].method = "POST"
        /\ out[w] = Return(PyTuple(<<jsonify, PyInt(201)>>))
        /\ Len(lists[items]) = 1
        /\ Value(HTTP_REQUESTS, <<"POST", "/items", "201">>) = 1

\* C13: a request with a truthy fail never gets into its handler: it is
\* only ever asleep, at line 36 or out of wrapped with abort(500), no
\* handler invocation is counted for it, and none of its steps touches the
\* item store
C13_ForcedFailureSkipsHandler ==
    [][\A w \in Workers :
        (pc'[w] # pc[w] /\ (Truthy(req[w].fail) \/ Truthy(req'[w].fail))) =>
            /\ pc'[w] \in {"idle", "sleep", "l36", "done"}
            /\ pc'[w] = "done" => out'[w] = Raise(abort(500))
            /\ UNCHANGED <<store, calls, result, hlocals>>
      ]_vars

\* C13's case: a forced-failure DELETE of the one stored item is over and
\* the item is still there
C13_Witness ==
    \E w \in Workers :
        /\ pc[w] = "done"
        /\ Truthy(req[w].fail)
        /\ req[w].method = "DELETE"
        /\ Find(items, req[w].item_id) = 1
        /\ calls[<<"DELETE", "/items/<id>">>] = 0

\* every series of the counter family `old` is in `new`, not lowered
CounterGrows(old, new) ==
    \A k \in DOMAIN old : k \in DOMAIN new /\ new[k] >= old[k]

\* every series of the histogram family `old` is in `new`, with no bucket,
\* sum or count lowered
HistogramGrows(old, new) ==
    \A k \in DOMAIN old :
        /\ k \in DOMAIN new
        /\ Count(new, k) >= Count(old, k)
        /\ new[k].sum >= old[k].sum
        /\ \A b \in DOMAIN old[k].buckets : new[k].buckets[b] >= old[k].buckets[b]

\* C14: no step of any request, whatever the interleaving, lowers a
\* request, error or slow counter or a histogram count, or removes a series
C14_Monotonic ==
    [][ /\ CounterGrows(HTTP_REQUESTS, HTTP_REQUESTS')
        /\ CounterGrows(HTTP_ERRORS, HTTP_ERRORS')
        /\ CounterGrows(HTTP_SLOW, HTTP_SLOW')
        /\ HistogramGrows(HTTP_DURATION, HTTP_DURATION')
        /\ HistogramGrows(LAST_DURATION, LAST_DURATION') ]_vars

\* C14's case: a worker is inside its recording, next to a request the
\* other worker has recorded, after two request series, an error series and
\* a slow series came to exist
C14_Witness ==
    /\ \E w \in Workers : pc[w] = "l69"
    /\ \E w \in Workers : pc[w] = "done"
    /\ Cardinality(DOMAIN HTTP_REQUESTS) = 2
    /\ DOMAIN HTTP_ERRORS # {}
    /\ DOMAIN HTTP_SLOW # {}

\* C15: while a request sleeps in its delay every other worker can go on
\* without it: one that is idle can be given a request, one inside wrapped,
\* its handler or its recording can take its next step, and one that has
\* recorded can leave, all while the sleeper stays asleep
C15_DelayBlocksNobody ==
    \A w \in Workers :
        pc[w] = "sleep" =>
            \A v \in Workers \ {w} :
                /\ (pc[v] = "idle" /\ admitted < MaxDelayRequests) =>
                      ENABLED (\E r \in Delayable :
                                  Dispatch(v, r, MaxDelayRequests))
                /\ pc[v] \notin {"idle", "sleep"} => ENABLED ServeDelay(v)

\* C15's case: a request that entered its handler after another went to
\* sleep has made all its metric updates, and the sleeper still has time
\* to sleep
C15_Witness ==
    \E w \in Workers, v \in Workers :
        /\ pc[w] = "sleep"
        /\ req[w].delay = "6.0"
        /\ now < wake[w]
        /\ pc[v] = "done"
        /\ start[v] > wake[w] - ParseFloat(req[w].delay)
        /\ applied[v] = Applicable(v)

\* no request is in flight: every worker is idle or has left its recording
Quiescent == \A w \in Workers : pc[w] \in {"idle", "done"}

\* C16: always, the error counter of (method, route, code) is at most the
\* request counter of the same labels and is 0 for a code below 500; when
\* no request is in flight the two are equal for every code from 500 up
C16_ErrorsWithinRequests ==
    /\ \A k \in DOMAIN HTTP_ERRORS :
         /\ HTTP_ERRORS[k] <= Value(HTTP_REQUESTS, k)
         /\ IntOf(k[3]) >= 500
    /\ Quiescent =>
         \A k \in DOMAIN HTTP_REQUESTS :
            IntOf(k[3]) >= 500 => Value(HTTP_ERRORS, k) = HTTP_REQUESTS[k]

\* C16's case: with no request in flight, a (method, route) has requests
\* counted under a code below 500 and two under 500, both counted as errors
C16_Witness ==
    /\ Quiescent
    /\ \E k1, k2 \in DOMAIN HTTP_REQUESTS :
         /\ k1[1] = k2[1] /\ k1[2] = k2[2]
         /\ IntOf(k1[3]) < 500
         /\ k2[3] = "500"
         /\ HTTP_REQUESTS[k2] = 2
         /\ Value(HTTP_ERRORS, k2) = 2

\* C17: when no request is in flight, the duration histogram of (method,
\* route, code) has as many observations as the request counter of the same
\* labels counts, and the last-duration histogram of (method, route) as
\* many as the request counters of its codes together
C17_CountsAgree ==
    Quiescent =>
        /\ \A k \in DOMAIN HTTP_REQUESTS \cup DOMAIN HTTP_DURATION :
             Count(HTTP_DURATION, k) = Value(HTTP_REQUESTS, k)
        /\ \A e \in Endpoints :
             Count(LAST_DURATION, e) = SumCodes(HTTP_REQUESTS, e)
        /\ DOMAIN LAST_DURATION \subseteq Endpoints

\* C17's case: with no request in flight, a (method, route) has been
\* requested three times to three different codes
C17_Witness ==
    /\ Quiescent
    /\ \E e \in Endpoints :
         /\ Count(LAST_DURATION, e) = 3
         /\ Cardinality({k \in DOMAIN HTTP_DURATION :
                            k[1] = e[1] /\ k[2] = e[2]}) = 3

\* C18: the items of the store have pairwise distinct ids
C18_DistinctIds ==
    \A m, n \in 1..Len(lists[items]) :
        m # n => dicts[lists[items][m]].id # dicts[lists[items][n]].id

\* dict n was appended by a create_item whose request has since left
\* wrapped with its 201
Created(n) ==
    /\ \E l \in 1..Len(lists) : \E p \in 1..Len(lists[l]) : lists[l][p] = n
    /\ \A w \in Workers : item[w] # n

\* C19: an item whose create returned 201 is in the store for as long as no
\* delete of its own id has succeeded; stated for the items whose id no
\* request deletes
C19_CreatedItemStays ==
    \A n \in 1..Len(dicts) :
        (Created(n) /\ dicts[n].id \notin ItemIds) =>
            \E p \in 1..Len(lists[items]) : lists[items][p] = n

====
